---- MODULE Spec2Model ----
(***************************************************************************)
(* PodARC: the event store, the client-side video matcher and the          *)
(* retention sweep (app.js, event-retention.js, routes/retention.js).      *)
(*                                                                         *)
(* Strings are sequences of one-character strings, so that the regular     *)
(* expressions, substr/substring and startsWith of the source are modelled *)
(* by what they do.  A Date is a record [day, sec]: days since 1970-01-01  *)
(* and the second of the day, in naive local time (no DST, no zone).       *)
(***************************************************************************)
EXTENDS Integers, Sequences, FiniteSets, TLC

(* ----------------------------------------------------------------------- *)
(* Characters and strings                                                   *)
(* ----------------------------------------------------------------------- *)
Digits == {"0", "1", "2", "3", "4", "5", "6", "7", "8", "9"}

DigitChars == <<"0", "1", "2", "3", "4", "5", "6", "7", "8", "9">>

DigitVal(c) == (CHOOSE i \in 1..10 : DigitChars[i] = c) - 1

Min2(a, b) == IF a <= b THEN a ELSE b

Max2(a, b) == IF a >= b THEN a ELSE b

Abs(x) == IF x < 0 THEN -x ELSE x

\* String.prototype.substr(start, length), 0-based start
Substr(s, start, len) == SubSeq(s, start + 1, Min2(Len(s), start + len))

\* String.prototype.substring(a, b): the arguments are clamped to the
\* string and SWAPPED when a > b; the result is s[min, max)
Substring(s, a, b) ==
    LET ca == Min2(Max2(a, 0), Len(s))
        cb == Min2(Max2(b, 0), Len(s))
    IN  SubSeq(s, Min2(ca, cb) + 1, Max2(ca, cb))

StartsWith(s, p) == Len(p) <= Len(s) /\ SubSeq(s, 1, Len(p)) = p

EndsWith(s, p) == Len(p) <= Len(s) /\ SubSeq(s, Len(s) - Len(p) + 1, Len(s)) = p

UpperToLower(c) == IF c = "M" THEN "m" ELSE IF c = "P" THEN "p" ELSE c

\* String.prototype.toLowerCase over the letters the file names use
ToLowerCase(s) == [i \in 1..Len(s) |-> UpperToLower(s[i])]

\* parseInt of a short digit string (at most nine digits)
RECURSIVE ParseInt(_)
ParseInt(s) ==
    IF s = <<>> THEN 0 ELSE ParseInt(SubSeq(s, 1, Len(s) - 1)) * 10 + DigitVal(s[Len(s)])

\* Remainder and quotient of the number written by the digit string s,
\* by long division: the sweep's substring(12, 2) is a ten-digit number
RECURSIVE NumRem(_, _)
NumRem(s, m) ==
    IF s = <<>> THEN 0
    ELSE (NumRem(SubSeq(s, 1, Len(s) - 1), m) * 10 + DigitVal(s[Len(s)])) % m

RECURSIVE NumQuot(_, _)
NumQuot(s, m) ==
    IF s = <<>> THEN 0
    ELSE NumQuot(SubSeq(s, 1, Len(s) - 1), m) * 10
         + (NumRem(SubSeq(s, 1, Len(s) - 1), m) * 10 + DigitVal(s[Len(s)])) \div m

\* Number.prototype.toString for n >= 0
RECURSIVE ToDigits(_)
ToDigits(n) ==
    IF n < 10 THEN <<DigitChars[n + 1]>>
    ELSE Append(ToDigits(n \div 10), DigitChars[(n % 10) + 1])

\* n.toString().padStart(2, '0')
Pad2(n) == IF n < 10 THEN <<"0">> \o ToDigits(n) ELSE ToDigits(n)

\* index (1-based) of the first run of k digits in s, 0 when there is none
FirstDigitRun(s, k) ==
    LET starts == {i \in 1..(Len(s) - k + 1) : \A j \in i..(i + k - 1) : s[j] \in Digits}
    IN  IF starts = {} THEN 0 ELSE CHOOSE i \in starts : \A j \in starts : i <= j

\* path.basename / split('/').pop(): what follows the last "/"
Basename(p) ==
    LET slashes == {i \in 1..Len(p) : p[i] = "/"}
    IN  IF slashes = {} THEN p
        ELSE SubSeq(p, (CHOOSE i \in slashes : \A j \in slashes : j <= i) + 1, Len(p))

\* the directory part of a path: what precedes the last "/"
Dirname(p) ==
    LET slashes == {i \in 1..Len(p) : p[i] = "/"}
    IN  IF slashes = {} THEN <<>>
        ELSE SubSeq(p, 1, (CHOOSE i \in slashes : \A j \in slashes : j <= i) - 1)

\* path.join of two parts: one "/" between them
PathJoin(a, b) ==
    IF b = <<>> THEN a
    ELSE IF b[1] = "/" THEN a \o b ELSE a \o <<"/">> \o b

(* ----------------------------------------------------------------------- *)
(* Dates                                                                    *)
(* ----------------------------------------------------------------------- *)
SecondsPerDay == 24 * 60 * 60

\* days since 1970-01-01 of the civil date y-m-d (m in 1..12)
DaysFromCivil(y, m, d) ==
    LET yy  == IF m <= 2 THEN y - 1 ELSE y
        era == yy \div 400
        yoe == yy - era * 400
        mp  == IF m > 2 THEN m - 3 ELSE m + 9
        doy == (153 * mp + 2) \div 5 + d - 1
        doe == yoe * 365 + yoe \div 4 - yoe \div 100 + doy
    IN  era * 146097 + doe - 719468

\* the civil date [y, m, d] of a day number
CivilFromDays(z0) ==
    LET z   == z0 + 719468
        era == z \div 146097
        doe == z - era * 146097
        yoe == (doe - doe \div 1460 + doe \div 36524 - doe \div 146096) \div 365
        doy == doe - (365 * yoe + yoe \div 4 - yoe \div 100)
        mp  == (5 * doy + 2) \div 153
        d   == doy - (153 * mp + 2) \div 5 + 1
        m   == IF mp < 10 THEN mp + 3 ELSE mp - 9
        y   == yoe + era * 400 + (IF m <= 2 THEN 1 ELSE 0)
    IN  [y |-> y, m |-> m, d |-> d]

\* new Date(year, month, day, hour, minute, second): month is 0-based and
\* every field overflows into the next.  year, month and day are numbers;
\* hour, minute and second are the digit strings parseInt was given.
NewDate(year, month, day, hour, minute, second) ==
    LET y   == year + month \div 12
        m   == month % 12
        s   == NumRem(hour, 24) * 3600 + NumRem(minute, 1440) * 60
               + NumRem(second, SecondsPerDay)
        dd  == DaysFromCivil(y, m + 1, 1) + (day - 1) + NumQuot(hour, 24)
               + NumQuot(minute, 1440) + NumQuot(second, SecondsPerDay)
    IN  [day |-> dd + s \div SecondsPerDay, sec |-> s % SecondsPerDay]

DateLess(a, b) == a.day < b.day \/ (a.day = b.day /\ a.sec < b.sec)

\* Date.prototype.setDate(getDate() + n)
AddDays(t, n) == [day |-> t.day + n, sec |-> t.sec]

\* differences of more than a day are reported as FarMs, above every window
FarMs == 1000 * 1000 * 1000

Infinity == FarMs + 1

\* Math.abs(a.getTime() - b.getTime()), in milliseconds
AbsDiffMs(a, b) ==
    IF Abs(a.day - b.day) > 1 THEN FarMs
    ELSE Abs((a.day - b.day) * SecondsPerDay + a.sec - b.sec) * 1000

(* ----------------------------------------------------------------------- *)
(* Bounds of the model                                                      *)
(* ----------------------------------------------------------------------- *)
MaxEvents == 2

MaxTicks == 1

MaxSweeps == 2

MaxMatches == 2

\* videos on disk at most
MaxVideos == 3

(* ----------------------------------------------------------------------- *)
(* Names and paths                                                          *)
(* ----------------------------------------------------------------------- *)
POD1 == <<"P", "O", "D", "1">>

TestCamera == <<"T", "e", "s", "t", " ", "C", "a", "m", "e", "r", "a">>

\* path.join(__dirname, 'public'), written relative to __dirname
PublicDir == <<"p", "u", "b", "l", "i", "c">>

VideosWord == <<"v", "i", "d", "e", "o", "s">>

\* the '/videos/' prefix of a stored videoPath
VideosPrefix == <<"/">> \o VideosWord \o <<"/">>

ImagesPrefix == <<"/", "i", "m", "a", "g", "e", "s", "/">>

Mp4 == <<".", "m", "p", "4">>

Jpg == <<".", "j", "p", "g">>

TestImagePath == ImagesPrefix \o <<"t", "e", "s", "t">> \o Jpg

TestPrefix == <<"t", "e", "s", "t", "-">>

\* the directory the list endpoint reads: __dirname/public/videos
ListBaseDir == PublicDir \o <<"/">> \o VideosWord

\* the directory the sweep's fallback reads: videosBasePath/public/videos
SweepBaseDir == PublicDir \o <<"/">> \o PublicDir \o <<"/">> \o VideosWord

Slash(a, b) == a \o <<"/">> \o b

(* ----------------------------------------------------------------------- *)
(* The environment: mails and uploaded videos                               *)
(* ----------------------------------------------------------------------- *)
TsA == <<"2", "0", "2", "5", "0", "4", "2", "4", "1", "5", "3", "4", "1", "8">>

TsB == <<"2", "0", "2", "5", "0", "4", "2", "4", "1", "5", "3", "4", "2", "8">>

\* a camera's attachment name: <channel>_<timestamp with milliseconds>.jpg
AttachmentName(ts) == <<"0", "1", "_">> \o ts \o <<"0", "0", "0">> \o Jpg

DateOfTs(ts) ==
    NewDate(ParseInt(Substr(ts, 0, 4)), ParseInt(Substr(ts, 4, 2)) - 1,
            ParseInt(Substr(ts, 6, 2)), Substr(ts, 8, 2), Substr(ts, 10, 2),
            Substr(ts, 12, 2))

\* the alarm mails the cameras send: MsgA and MsgB carry the snapshot as an
\* attachment, MsgC is a redelivery of MsgA's Message-ID whose snapshot is
\* an <img> URL that has to be downloaded
MsgA == [messageId |-> <<"m", "1">>, date |-> DateOfTs(TsA), camera |-> POD1,
         attachment |-> AttachmentName(TsA), html |-> FALSE]

MsgB == [messageId |-> <<"m", "2">>, date |-> DateOfTs(TsB), camera |-> POD1,
         attachment |-> AttachmentName(TsB), html |-> FALSE]

MsgC == [messageId |-> <<"m", "1">>, date |-> DateOfTs(TsA), camera |-> POD1,
         attachment |-> <<>>, html |-> TRUE]

\* the mails delivered while the store is built up
Mails == {MsgA, MsgC}

\* a video file as the upload collaborator names it
VideoName(camera, ts) == camera \o <<"_", "0", "0", "_">> \o ts \o Mp4

DayDirOfTs(ts) == Slash(Slash(Substr(ts, 0, 4), Substr(ts, 4, 2)), Substr(ts, 6, 2))

\* 15:34:23, five seconds after MsgA's snapshot and five before MsgB's
TsV1 == <<"2", "0", "2", "5", "0", "4", "2", "4", "1", "5", "3", "4", "2", "3">>

VideoA == Slash(Slash(ListBaseDir, DayDirOfTs(TsV1)), VideoName(POD1, TsV1))

\* the same clip under the layout the sweep's fallback and first path format read
VideoAlt == Slash(Slash(SweepBaseDir, DayDirOfTs(TsV1)), VideoName(POD1, TsV1))

\* the server clock when the model starts: 2025-04-24 15:35:00
StartTime == [day |-> DaysFromCivil(2025, 4, 24), sec |-> 56100]

(* ----------------------------------------------------------------------- *)
(* State                                                                    *)
(* ----------------------------------------------------------------------- *)
VARIABLES
    store,          \* events-data.json: the sequence of events
    files,          \* the paths that exist under __dirname
    now,            \* the server clock
    ticks,          \* how often the clock advanced
    pending,        \* mail callbacks suspended in await saveEmailImage
    sw,             \* the retention sweep in flight and its statistics
    sweeps,         \* how many sweeps were started
    m,              \* the matcher call in flight and its result
    matches,        \* how many matcher calls were started
    retentionDays,  \* retentionService.retentionDays of routes/retention.js
    last            \* what the last request or mail callback answered and did

vars == <<store, files, now, ticks, pending, sw, sweeps, m, matches, retentionDays, last>>

\* Date.now() at clock value t, in clock ticks of one second
Stamp(t) == t.day * SecondsPerDay + t.sec

DateNow == Stamp(now)

Ids(events) == {events[i].id : i \in 1..Len(events)}

\* a lookup that falls back on the first event when no event has the id
FindIndexOrFirst(events, eventId) ==
    LET hits == {i \in 1..Len(events) : events[i].id = eventId}
    IN  IF hits = {} THEN (IF events = <<>> THEN 0 ELSE 1)
        ELSE CHOOSE i \in hits : \A j \in hits : i <= j

\* Array.prototype.findIndex(e => e.id === eventId): 0 stands for -1
FindIndex(events, eventId) ==
    LET hits == {i \in 1..Len(events) : events[i].id = eventId}
    IN  IF hits = {} THEN 0 ELSE CHOOSE i \in hits : \A j \in hits : i <= j

\* readEventsData: the parsed file, or [] when reading or parsing throws
ReadEventsData(readOk) == IF readOk THEN store ELSE <<>>

\* writeEventsData: the file after the call (unchanged when writing throws)
WriteEventsData(events, writeOk) == IF writeOk THEN events ELSE store

(* ----------------------------------------------------------------------- *)
(* Creating events                                                          *)
(* ----------------------------------------------------------------------- *)
\* an id no stored event has
MissingId == 1

NoDate == [day |-> 0, sec |-> 0]

\* responseTimeMinutes of an event that was never acknowledged (undefined)
NoMinutes == -1

NoEvent == [id |-> 0, messageId |-> <<>>, date |-> NoDate, camera |-> <<>>,
            imagePath |-> <<>>, videoPath |-> <<>>, acknowledged |-> FALSE,
            locked |-> FALSE, acknowledgedAt |-> NoDate, acknowledgedBy |-> "",
            responseTimeMinutes |-> NoMinutes, isLateResponse |-> FALSE]

\* a request or mail and what its handler answered and did: the event id or
\* the messageId it came with, the HTTP status (0 where there is no response,
\* as for the mail callback and the service's storeVideoPath), the error of
\* the body, whether the store file was written to, and the messageId of
\* the event announced to the connected clients
Reply(op, id, messageId, status, error, wrote, announced) ==
    [op |-> op, id |-> id, messageId |-> messageId, status |-> status,
     error |-> error, wrote |-> wrote, announced |-> announced]

NoReply == Reply("none", 0, <<>>, 0, "", FALSE, <<>>)

\* the value of last in the specifications that keep no record of the answers
Unrecorded == Reply("unrecorded", 0, <<>>, 0, "", FALSE, <<>>)

\* last after an answer: the answers are recorded where a specification
\* starts with last = NoReply
Record(reply) == IF last = Unrecorded THEN last ELSE reply

\* processEmail: the imagePath it derives from Date.now() and the mail
ProcessEmail(msg, t) ==
    [messageId |-> msg.messageId, date |-> msg.date, camera |-> msg.camera,
     isUrl |-> (msg.attachment = <<>> /\ msg.html),
     imagePath |->
        IF msg.attachment # <<>>
        THEN ImagesPrefix \o ToDigits(Stamp(t)) \o <<"_">> \o msg.attachment
        ELSE IF msg.html
             THEN ImagesPrefix \o ToDigits(Stamp(t))
                  \o <<"_", "e", "m", "b", "e", "d", "d", "e", "d">> \o Jpg
             ELSE <<>>]

\* the newEvent object of the mail callback
SmtpNewEvent(eventData, t) ==
    [id |-> Stamp(t), messageId |-> eventData.messageId, date |-> eventData.date,
     camera |-> eventData.camera, imagePath |-> eventData.imagePath,
     videoPath |-> <<>>, acknowledged |-> FALSE, locked |-> FALSE,
     acknowledgedAt |-> NoDate, acknowledgedBy |-> "",
     responseTimeMinutes |-> NoMinutes, isLateResponse |-> FALSE]

\* the newEvent object of the two test-event endpoints
TestNewEvent ==
    [id |-> DateNow, messageId |-> TestPrefix \o ToDigits(DateNow), date |-> now,
     camera |-> TestCamera, imagePath |-> TestImagePath,
     videoPath |-> <<>>, acknowledged |-> FALSE, locked |-> FALSE,
     acknowledgedAt |-> NoDate, acknowledgedBy |-> "",
     responseTimeMinutes |-> NoMinutes, isLateResponse |-> FALSE]

Room == Len(store) + Cardinality(pending) < MaxEvents

\* the mail callback up to its first await: read, dedup check, and, when the
\* snapshot is an attachment, saveEmailImage's writeFileSync, push, write
\* and notifyClients (the result of the write is not looked at)
SmtpReceive(msg, readOk, writeOk) ==
    LET eventData == ProcessEmail(msg, now)
        events    == ReadEventsData(readOk)
        existing  == \E i \in 1..Len(events) : events[i].messageId = eventData.messageId
    IN  /\ Room
        /\ IF existing
           THEN /\ last' = Record(Reply("smtp", 0, eventData.messageId, 0, "", FALSE, <<>>))
                /\ UNCHANGED <<store, files, pending>>
           ELSE IF eventData.imagePath # <<>> /\ eventData.isUrl
           THEN /\ pending' = pending \cup {[events |-> events, data |-> eventData]}
                /\ UNCHANGED <<store, files, last>>
           ELSE /\ files' = IF eventData.imagePath # <<>>
                            THEN files \cup {PublicDir \o eventData.imagePath}
                            ELSE files
                /\ store' = WriteEventsData(Append(events, SmtpNewEvent(eventData, now)), writeOk)
                /\ last' = Record(Reply("smtp", 0, eventData.messageId, 0, "", TRUE,
                                           eventData.messageId))
                /\ UNCHANGED pending
        /\ UNCHANGED <<now, ticks, sw, sweeps, m, matches, retentionDays>>

\* the mail callback after await saveEmailImage (a download): push onto the
\* list it read before the await, write, and notifyClients
SmtpResume(p, downloadOk, writeOk) ==
    /\ p \in pending
    /\ pending' = pending \ {p}
    /\ files' = IF downloadOk THEN files \cup {PublicDir \o p.data.imagePath} ELSE files
    /\ store' = WriteEventsData(Append(p.events, SmtpNewEvent(p.data, now)), writeOk)
    /\ last' = Record(Reply("smtp", 0, p.data.messageId, 0, "", TRUE, p.data.messageId))
    /\ UNCHANGED <<now, ticks, sw, sweeps, m, matches, retentionDays>>

\* POST /api/test/create-event
CreateTestEvent(readOk, writeOk) ==
    /\ Room
    /\ store' = WriteEventsData(Append(ReadEventsData(readOk), TestNewEvent), writeOk)
    /\ last' = Record(Reply("test", 0, TestNewEvent.messageId, 200, "", TRUE,
                            TestNewEvent.messageId))
    /\ UNCHANGED <<files, now, ticks, pending, sw, sweeps, m, matches, retentionDays>>

\* POST /api/check-emails?test=true
CheckEmailsTest(readOk, writeOk) ==
    /\ Room
    /\ store' = WriteEventsData(Append(ReadEventsData(readOk), TestNewEvent), writeOk)
    /\ last' = Record(Reply("test", 0, TestNewEvent.messageId, 200, "", TRUE,
                            TestNewEvent.messageId))
    /\ UNCHANGED <<files, now, ticks, pending, sw, sweeps, m, matches, retentionDays>>

(* ----------------------------------------------------------------------- *)
(* Updating events                                                          *)
(* ----------------------------------------------------------------------- *)
\* config.lateResponseThresholdMinutes
LateResponseThresholdMinutes == 2

\* Math.floor(responseTimeMs / (1000 * 60)) of an acknowledgement made at t
ResponseTimeMinutes(event, t) == (Stamp(t) - Stamp(event.date)) \div 60

\* the event as the acknowledge handler rewrites it for req.user = user:
\* isLateResponse is only ever set, to true
Acknowledged(event, user, lockedArg, t) ==
    [event EXCEPT
        !.acknowledged = TRUE,
        !.acknowledgedAt = t,
        !.responseTimeMinutes = ResponseTimeMinutes(event, t),
        !.acknowledgedBy = user,
        !.locked = IF lockedArg = "undefined" THEN @ ELSE (lockedArg = "true"),
        !.isLateResponse =
            IF ResponseTimeMinutes(event, t) > LateResponseThresholdMinutes THEN TRUE ELSE @]

\* POST /api/events/:id/acknowledge of an authenticated user; lockedArg is
\* "undefined", "true" or "false"
Acknowledge(eventId, user, lockedArg, readOk, writeOk) ==
    LET events == ReadEventsData(readOk)
        i      == FindIndex(events, eventId)
    IN  /\ store' = IF i = 0 THEN store
                    ELSE WriteEventsData(
                            [events EXCEPT ![i] = Acknowledged(events[i], user, lockedArg, now)],
                            writeOk)
        /\ last' = Record(IF i = 0 THEN Reply("acknowledge", eventId, <<>>, 404, "not-found", FALSE, <<>>)
                          ELSE IF ~writeOk
                          THEN Reply("acknowledge", eventId, <<>>, 500, "update-failed", TRUE, <<>>)
                          ELSE Reply("acknowledge", eventId, <<>>, 200, "", TRUE, <<>>))
        /\ UNCHANGED <<files, now, ticks, pending, sw, sweeps, m, matches, retentionDays>>

\* EventRetentionService.toggleEventLock: the file afterwards
ToggleEventLockStore(eventId, locked, readOk, writeOk) ==
    LET events == ReadEventsData(readOk)
        i      == FindIndex(events, eventId)
    IN  IF i = 0 THEN store
        ELSE WriteEventsData([events EXCEPT ![i].locked = locked], writeOk)

\* PUT /api/retention/events/:id/lock: every result without success is
\* answered with status 404 and the result's error
ToggleEventLock(eventId, locked, readOk, writeOk) ==
    /\ store' = ToggleEventLockStore(eventId, locked, readOk, writeOk)
    /\ last' = Record(IF FindIndex(ReadEventsData(readOk), eventId) = 0
                      THEN Reply("lock", eventId, <<>>, 404, "not-found", FALSE, <<>>)
                      ELSE IF ~writeOk THEN Reply("lock", eventId, <<>>, 404, "save-failed", TRUE, <<>>)
                      ELSE Reply("lock", eventId, <<>>, 200, "", TRUE, <<>>))
    /\ UNCHANGED <<files, now, ticks, pending, sw, sweeps, m, matches, retentionDays>>

\* EventRetentionService.storeVideoPath
StoreVideoPath(eventId, videoPath, readOk, writeOk) ==
    LET events == ReadEventsData(readOk)
        i      == FindIndex(events, eventId)
    IN  /\ store' = IF i = 0 THEN store
                    ELSE WriteEventsData([events EXCEPT ![i].videoPath = videoPath], writeOk)
        /\ last' = Record(IF i = 0 THEN Reply("attach", eventId, <<>>, 0, "not-found", FALSE, <<>>)
                          ELSE IF ~writeOk THEN Reply("attach", eventId, <<>>, 0, "save-failed", TRUE, <<>>)
                          ELSE Reply("attach", eventId, <<>>, 0, "", TRUE, <<>>))
        /\ UNCHANGED <<files, now, ticks, pending, sw, sweeps, m, matches, retentionDays>>

\* an update-video-path that answers 200 and leaves the file as it is
UpdateVideoPathCallUnsaved(eventId, videoPath, readOk, writeOk) ==
    [status |-> 200, error |-> "", wrote |-> FALSE, store |-> store]

\* the handler of POST /api/events/update-video-path: the HTTP status, the
\* error, whether it wrote to the file, and the file afterwards
UpdateVideoPathCall(eventId, videoPath, readOk, writeOk) ==
    LET i == FindIndex(store, eventId)
        answer(status, error, wrote, file) ==
            [status |-> status, error |-> error, wrote |-> wrote, store |-> file]
    IN  IF eventId = 0 \/ videoPath = <<>> THEN answer(400, "required", FALSE, store)
        ELSE IF ~readOk THEN answer(500, "read-failed", FALSE, store)
        ELSE IF i = 0 THEN answer(404, "not-found", FALSE, store)
        ELSE IF store[i].videoPath = videoPath THEN answer(200, "", FALSE, store)
        ELSE IF ~writeOk THEN answer(500, "write-failed", TRUE, store)
        ELSE answer(200, "", TRUE, [store EXCEPT ![i].videoPath = videoPath])

\* the reply of the update-video-path handler
UpdateVideoPathReply(eventId, call) ==
    Reply("attach", eventId, <<>>, call.status, call.error, call.wrote, <<>>)

\* POST /api/events/update-video-path, called directly
UpdateVideoPath(eventId, videoPath, readOk, writeOk) ==
    /\ store' = UpdateVideoPathCall(eventId, videoPath, readOk, writeOk).store
    /\ last' = Record(UpdateVideoPathReply(eventId,
                    UpdateVideoPathCall(eventId, videoPath, readOk, writeOk)))
    /\ UNCHANGED <<files, now, ticks, pending, sw, sweeps, m, matches, retentionDays>>

(* ----------------------------------------------------------------------- *)
(* The video index: GET /api/videos/list                                    *)
(* ----------------------------------------------------------------------- *)
IsVideoFile(path) == EndsWith(ToLowerCase(Basename(path)), Mp4)

RECURSIVE Orders(_)
\* every order in which readdirSync may enumerate the files of set S
Orders(S) ==
    IF S = {} THEN {<<>>}
    ELSE UNION {{<<x>> \o o : o \in Orders(S \ {x})} : x \in S}

RECURSIVE SelectFrom(_, _)
\* the members of set S in the order of sequence o
SelectFrom(o, S) ==
    IF o = <<>> THEN <<>>
    ELSE IF o[1] \in S THEN <<o[1]>> \o SelectFrom(Tail(o), S)
    ELSE SelectFrom(Tail(o), S)

\* fs.readdirSync(dir): the names directly in dir, in the order of o
ReadDir(fs, dir, o) ==
    LET here == {f \in fs : Dirname(f) = dir}
        names == SelectFrom(o, here)
    IN  [i \in 1..Len(names) |-> Basename(names[i])]

AllDigits(s, n) == Len(s) = n /\ \A i \in 1..n : s[i] \in Digits

\* the lookback of the listing without a date
MaxListDays == 7

\* Math.floor((now - new Date(`${year}-${month}-${day}`)) / 86400000) <= maxDays;
\* a month or day that is no calendar date gives NaN, and the test fails
WithinLastDays(year, month, day) ==
    LET mo == ParseInt(month)
        dd == ParseInt(day)
    IN  /\ mo \in 1..12
        /\ dd \in 1..31
        /\ now.day - DaysFromCivil(ParseInt(year), mo, dd) <= MaxListDays

\* the names below ListBaseDir of the day directories the undated listing reads
RecentDayDirs ==
    LET rels == {SubSeq(Dirname(f), Len(ListBaseDir) + 2, Len(Dirname(f))) :
                    f \in {g \in files : StartsWith(g, ListBaseDir \o <<"/">>)}}
    IN  {r \in rels :
            /\ Len(r) = 10 /\ r[5] = "/" /\ r[8] = "/"
            /\ AllDigits(SubSeq(r, 1, 4), 4)
            /\ AllDigits(SubSeq(r, 6, 7), 2)
            /\ AllDigits(SubSeq(r, 9, 10), 2)
            /\ WithinLastDays(SubSeq(r, 1, 4), SubSeq(r, 6, 7), SubSeq(r, 9, 10))}

\* the handler of GET /api/videos/list?camera=&date=: the paths relative to
\* /videos, in the order readdirSync gives (o orders every file on disk)
VideosList(camera, dateStr, o) ==
    LET year   == Substring(dateStr, 0, 4)
        month  == Substring(dateStr, 4, 6)
        day    == Substring(dateStr, 6, 8)
        rel    == Slash(Slash(year, month), day)
        dated  == LET names == ReadDir(files, Slash(ListBaseDir, rel), o)
                  IN  [i \in 1..Len(names) |-> Slash(rel, names[i])]
        recent == LET ls == SelectFrom(o, {f \in files :
                                \E r \in RecentDayDirs : Dirname(f) = Slash(ListBaseDir, r)})
                  IN  [i \in 1..Len(ls) |->
                          SubSeq(ls[i], Len(ListBaseDir) + 2, Len(ls[i]))]
        found  == IF dateStr # <<>> /\ Len(dateStr) = 8 THEN dated ELSE recent
        mp4    == SelectSeq(found, LAMBDA f : EndsWith(ToLowerCase(f), Mp4))
    IN  IF camera # <<>>
        THEN SelectSeq(mp4, LAMBDA f : StartsWith(Basename(f), camera))
        ELSE mp4

(* ----------------------------------------------------------------------- *)
(* The matcher: findMatchingVideo                                           *)
(* ----------------------------------------------------------------------- *)
\* first index after i at which the digit run starting at i ends
RunEnd(s, i) ==
    LET stops == {j \in i..Len(s) : s[j] \notin Digits}
    IN  IF stops = {} THEN Len(s) + 1 ELSE CHOOSE j \in stops : \A k \in stops : j <= k

\* where the group of /\d+_\d+_(\d{14})/ starts when the match starts at i, else 0
ImageMatchAt(s, i) ==
    IF s[i] \notin Digits THEN 0
    ELSE LET j == RunEnd(s, i)
         IN  IF ~(j + 1 <= Len(s) /\ s[j] = "_" /\ s[j + 1] \in Digits) THEN 0
             ELSE LET k == RunEnd(s, j + 1)
                  IN  IF /\ k + 14 <= Len(s)
                         /\ s[k] = "_"
                         /\ \A t \in (k + 1)..(k + 14) : s[t] \in Digits
                      THEN k + 1 ELSE 0

\* imagePath.match(/\d+_\d+_(\d{14})/)[1], or <<>> when there is no match
ImageTimestamp(imagePath) ==
    LET hits == {i \in 1..Len(imagePath) : ImageMatchAt(imagePath, i) # 0}
    IN  IF hits = {} THEN <<>>
        ELSE LET i == CHOOSE h \in hits : \A g \in hits : h <= g
                 g == ImageMatchAt(imagePath, i)
             IN  SubSeq(imagePath, g, g + 13)

\* filename.match(/(\d{14})/)[1], or <<>>
VideoTimestamp(filename) ==
    LET i == FirstDigitRun(filename, 14)
    IN  IF i = 0 THEN <<>> ELSE SubSeq(filename, i, i + 13)

\* the Date findMatchingVideo builds from a 14-digit timestamp (substr)
MatcherDate(ts) ==
    NewDate(ParseInt(Substr(ts, 0, 4)), ParseInt(Substr(ts, 4, 2)) - 1,
            ParseInt(Substr(ts, 6, 2)), Substr(ts, 8, 2), Substr(ts, 10, 2),
            Substr(ts, 12, 2))

\* timeWindowMs of the date-scoped search
TimeWindowMs == 120000

\* extendedTimeWindow of the search over all dates
ExtendedTimeWindow == 120000

\* a comparison that stops short of the window's edge
CloserInsideWindow(timeDiff, minTimeDiff, window) ==
    timeDiff < minTimeDiff /\ timeDiff < window

\* a comparison that lets a later candidate of equal difference win
CloserOrEqual(timeDiff, minTimeDiff, window) ==
    timeDiff <= minTimeDiff /\ timeDiff <= window

\* if (timeDiff < minTimeDiff && timeDiff <= timeWindowMs)
Closer(timeDiff, minTimeDiff, window) == timeDiff < minTimeDiff /\ timeDiff <= window

RECURSIVE BestMatchLoop(_, _, _, _)
\* the loop over the listed videos: acc is [bestMatch, minTimeDiff]
BestMatchLoop(videoFiles, imageDate, window, acc) ==
    IF videoFiles = <<>> THEN acc
    ELSE LET videoPath == videoFiles[1]
             ts        == VideoTimestamp(Basename(videoPath))
             timeDiff  == AbsDiffMs(MatcherDate(ts), imageDate)
             next      == IF ts # <<>> /\ Closer(timeDiff, acc.minTimeDiff, window)
                          THEN [bestMatch |-> videoPath, minTimeDiff |-> timeDiff]
                          ELSE acc
         IN  BestMatchLoop(Tail(videoFiles), imageDate, window, next)

NoMatch == [bestMatch |-> <<>>, minTimeDiff |-> Infinity]

NotFound == [found |-> FALSE, videoPath |-> <<>>, timeDifference |-> Infinity]

IdleMatcher ==
    [pc |-> "idle", event |-> NoEvent, scanned |-> <<>>, bestMatch |-> <<>>,
     minTimeDiff |-> Infinity, listings |-> 0, status |-> 0, wrote |-> FALSE,
     result |-> NotFound]

\* the files readdirSync finds in the day directory of an event's snapshot
DatedFiles(event) ==
    {f \in files :
        Dirname(f) = Slash(ListBaseDir, DayDirOfTs(ImageTimestamp(event.imagePath)))}

\* the files the listing without a date enumerates
RecentFiles == {f \in files : \E r \in RecentDayDirs : Dirname(f) = Slash(ListBaseDir, r)}

\* findMatchingVideo(event) up to the answer of its first request: the
\* checks of imagePath, timestamp and camera, the dated listing, the loop
MatchStart(event) ==
    LET ts      == ImageTimestamp(event.imagePath)
        dateStr == Substr(ts, 0, 4) \o Substr(ts, 4, 2) \o Substr(ts, 6, 2)
        begun   == [IdleMatcher EXCEPT !.event = event]
    IN  /\ m.pc \in {"idle", "done"}
        /\ matches < MaxMatches
        /\ matches' = matches + 1
        /\ IF event.imagePath = <<>> \/ ts = <<>> \/ event.camera = <<>>
           THEN m' = [begun EXCEPT !.pc = "done"]
           ELSE \E o \in Orders(DatedFiles(event)) :
                  LET videoList == VideosList(event.camera, dateStr, o)
                      best == BestMatchLoop(videoList, MatcherDate(ts), TimeWindowMs, NoMatch)
                  IN  m' = [begun EXCEPT
                              !.listings = 1, !.scanned = videoList,
                              !.bestMatch = best.bestMatch,
                              !.minTimeDiff = best.minTimeDiff,
                              !.pc = IF best.bestMatch # <<>> THEN "update"
                                     ELSE IF Len(videoList) = 0 THEN "extended"
                                     ELSE "done"]
        /\ UNCHANGED <<store, files, now, ticks, pending, sw, sweeps, retentionDays, last>>

\* the search over all dates, made when the dated listing was empty
MatchExtended ==
    /\ m.pc = "extended"
    /\ \E o \in Orders(RecentFiles) :
          LET ts        == ImageTimestamp(m.event.imagePath)
              videoList == VideosList(m.event.camera, <<>>, o)
              best      == BestMatchLoop(videoList, MatcherDate(ts), ExtendedTimeWindow,
                              [bestMatch |-> m.bestMatch, minTimeDiff |-> m.minTimeDiff])
          IN  m' = [m EXCEPT
                      !.listings = 2, !.scanned = videoList,
                      !.bestMatch = best.bestMatch, !.minTimeDiff = best.minTimeDiff,
                      !.pc = IF best.bestMatch # <<>> THEN "update" ELSE "done"]
    /\ UNCHANGED <<store, files, now, ticks, pending, sw, sweeps, matches, retentionDays, last>>

\* the POST of `/videos/${bestMatch}` to update-video-path and the return:
\* found is reported whatever the answer (event.id = 0 skips the request)
MatchUpdate(readOk, writeOk) ==
    LET fullVideoPath == VideosPrefix \o m.bestMatch
        call == UpdateVideoPathCall(m.event.id, fullVideoPath, readOk, writeOk)
    IN  /\ m.pc = "update"
        /\ store' = IF m.event.id # 0 THEN call.store ELSE store
        /\ m' = [m EXCEPT
                    !.pc = "done",
                    !.status = IF m.event.id # 0 THEN call.status ELSE 0,
                    !.wrote = (m.event.id # 0 /\ call.store # store),
                    !.result = [found |-> TRUE, videoPath |-> fullVideoPath,
                                timeDifference |-> m.minTimeDiff]]
        /\ last' = IF m.event.id # 0 THEN Record(UpdateVideoPathReply(m.event.id, call)) ELSE last
        /\ UNCHANGED <<files, now, ticks, pending, sw, sweeps, matches, retentionDays>>

(* ----------------------------------------------------------------------- *)
(* The retention sweep: EventRetentionService.cleanupOldEvents              *)
(* ----------------------------------------------------------------------- *)
\* config.retentionDays of app.js, the window of the scheduled sweep
ConfigRetentionDays == 7

\* options.retentionDays || 7 of the service routes/retention.js constructs
DefaultRetentionDays == 7

\* timeWindowMs of the sweep's fallback search
SweepTimeWindowMs == 180000

EmptyStats ==
    [processedEvents |-> 0, deletedEvents |-> 0, skippedLockedEvents |-> 0,
     deletedImages |-> 0, deletedVideos |-> 0, errors |-> <<>>]

IdleSweep ==
    [pc |-> "idle", eventsToDelete |-> <<>>, eventsToKeep |-> <<>>, next |-> 1,
     cutoffDate |-> NoDate, stats |-> EmptyStats, saved |-> FALSE, refused |-> {}]

\* an age test that also takes the event dated exactly at the cutoff
IsOldOrAtCutoff(event, cutoffDate) == ~DateLess(cutoffDate, event.date)

\* const isOld = eventDate < cutoffDate
IsOld(event, cutoffDate) == DateLess(event.date, cutoffDate)

\* a classification by age alone
ExpiredByAgeAlone(event, cutoffDate) == IsOld(event, cutoffDate)

\* if (isOld && !event.locked) eventsToDelete.push(event)
Expired(event, cutoffDate) == IsOld(event, cutoffDate) /\ ~event.locked

\* an unlink that threw anything but ENOENT, noted with the event of the pass
Refuse(st, path, id) == [st EXCEPT !.refused = @ \cup {[id |-> id, path |-> path]}]

\* a sweep that keeps its errors list empty
PushErrorDropped(st, what, id) == st

PushError(st, what, id) ==
    [st EXCEPT !.stats.errors = Append(@, [what |-> what, id |-> id])]

\* the image of one event: unlinked when it exists; an unlink that throws
\* anything but ENOENT is pushed to errors (deny: the paths unlink refuses)
DeleteImage(event, st, deny) ==
    LET fullImagePath == PathJoin(PublicDir, event.imagePath)
    IN  IF event.imagePath = <<>> \/ fullImagePath \notin st.files THEN st
        ELSE IF fullImagePath \in deny
        THEN [PushError(Refuse(st, fullImagePath, event.id), "image", event.id)
                EXCEPT !.awaited = TRUE]
        ELSE [st EXCEPT !.files = @ \ {fullImagePath},
                        !.stats.deletedImages = @ + 1,
                        !.awaited = TRUE]

\* event.videoPath.replace(/^\/videos\//, '')
RelativePath(videoPath) ==
    IF StartsWith(videoPath, VideosPrefix)
    THEN SubSeq(videoPath, Len(VideosPrefix) + 1, Len(videoPath))
    ELSE videoPath

\* the three pathFormats tried for a stored videoPath
PathFormats(videoPath) ==
    <<PathJoin(Slash(PublicDir, Slash(PublicDir, VideosWord)), RelativePath(videoPath)),
      PathJoin(Slash(PublicDir, VideosWord), RelativePath(videoPath)),
      PathJoin(PublicDir, RelativePath(videoPath))>>

RECURSIVE TryFormats(_, _, _, _)
\* the loop over pathFormats: the first that exists and unlinks ends it
TryFormats(formats, event, st, deny) ==
    IF formats = <<>>
    THEN PushError(st, "video-path", event.id)
    ELSE IF formats[1] \notin st.files THEN TryFormats(Tail(formats), event, st, deny)
    ELSE IF formats[1] \in deny
    THEN TryFormats(Tail(formats), event,
                    [Refuse(st, formats[1], event.id) EXCEPT !.awaited = TRUE], deny)
    ELSE [st EXCEPT !.files = @ \ {formats[1]},
                    !.stats.deletedVideos = @ + 1,
                    !.awaited = TRUE]

\* the Date the fallback builds from a video's timestamp: substring(4, 2),
\* substring(6, 2), ... are called with (start, length) arguments
SweepFileDate(timestamp) ==
    NewDate(ParseInt(Substring(timestamp, 0, 4)), ParseInt(Substring(timestamp, 4, 2)) - 1,
            ParseInt(Substring(timestamp, 6, 2)), Substring(timestamp, 8, 2),
            Substring(timestamp, 10, 2), Substring(timestamp, 12, 2))

\* the Date the video-match debug route builds from a video's timestamp,
\* with the same substring(4, 2), substring(6, 2), ... calls
DebugFileDate(timestamp) ==
    NewDate(ParseInt(Substring(timestamp, 0, 4)), ParseInt(Substring(timestamp, 4, 2)) - 1,
            ParseInt(Substring(timestamp, 6, 2)), Substring(timestamp, 8, 2),
            Substring(timestamp, 10, 2), Substring(timestamp, 12, 2))

\* year, month and day of the three datesToCheck, as directory names
DatesToCheck(eventDate) ==
    LET name(c) == Slash(Slash(ToDigits(c.y), Pad2(c.m)), Pad2(c.d))
    IN  <<name(CivilFromDays(eventDate.day)),
          name(CivilFromDays(eventDate.day - 1)),
          name(CivilFromDays(eventDate.day + 1))>>

\* bestTimeDiff = Math.min(timeDiff, altTimeDiff)
BestTimeDiff(file, event) ==
    LET fileTime       == SweepFileDate(VideoTimestamp(file))
        imageTimestamp == ImageTimestamp(event.imagePath)
        timeDiff       == AbsDiffMs(fileTime, event.date)
        altTimeDiff    == IF imageTimestamp # <<>>
                          THEN AbsDiffMs(fileTime, MatcherDate(imageTimestamp))
                          ELSE Infinity
    IN  Min2(timeDiff, altTimeDiff)

\* if (bestTimeDiff <= timeWindowMs)
InSweepWindow(file, event) ==
    VideoTimestamp(file) # <<>> /\ BestTimeDiff(file, event) <= SweepTimeWindowMs

RECURSIVE TryCameraFiles(_, _, _, _, _)
\* the loop over cameraFiles of one directory: the FIRST file within the
\* window is unlinked; st.found ends the search
TryCameraFiles(cameraFiles, videoDir, event, st, deny) ==
    IF cameraFiles = <<>> THEN st
    ELSE LET file == cameraFiles[1]
             fullVideoPath == Slash(videoDir, file)
         IN  IF ~InSweepWindow(file, event)
             THEN TryCameraFiles(Tail(cameraFiles), videoDir, event, st, deny)
             ELSE IF fullVideoPath \in deny
             THEN TryCameraFiles(Tail(cameraFiles), videoDir, event,
                     [PushError(Refuse(st, fullVideoPath, event.id), "video", event.id)
                        EXCEPT !.awaited = TRUE], deny)
             ELSE IF fullVideoPath \notin st.files
             THEN TryCameraFiles(Tail(cameraFiles), videoDir, event,
                     [st EXCEPT !.awaited = TRUE], deny)
             ELSE [st EXCEPT !.files = @ \ {fullVideoPath},
                             !.stats.deletedVideos = @ + 1,
                             !.awaited = TRUE, !.found = TRUE]

RECURSIVE TryDates(_, _, _, _, _)
\* the loop over datesToCheck
TryDates(dates, event, st, deny, o) ==
    IF dates = <<>> \/ st.found THEN st
    ELSE LET videoDir    == Slash(SweepBaseDir, dates[1])
             cameraFiles == SelectSeq(ReadDir(st.files, videoDir, o),
                               LAMBDA f : StartsWith(f, event.camera)
                                          /\ EndsWith(ToLowerCase(f), Mp4))
         IN  TryDates(Tail(dates), event,
                      TryCameraFiles(cameraFiles, videoDir, event, st, deny), deny, o)

\* the video step of a pass, on the state img the image step left: the
\* stored videoPath or else the fallback search, then deletedEvents++
DeleteVideo(event, img, deny, o) ==
    [(IF event.videoPath # <<>>
      THEN TryFormats(PathFormats(event.videoPath), event, img, deny)
      ELSE IF event.camera # <<>>
      THEN TryDates(DatesToCheck(event.date), event, [img EXCEPT !.found = FALSE], deny, o)
      ELSE img) EXCEPT !.stats.deletedEvents = @ + 1]

\* one pass of the loop over eventsToDelete
ProcessDeletion(event, st, deny, o) == DeleteVideo(event, DeleteImage(event, st, deny), deny, o)

RECURSIVE RunDeletions(_, _, _, _, _)
RECURSIVE AfterPass(_, _, _, _, _)
\* the loop from eventsToDelete[i] on, up to and including the first pass
\* that awaited an unlink; next is the index to resume at
RunDeletions(eventsToDelete, i, st, deny, o) ==
    IF i > Len(eventsToDelete) THEN [st EXCEPT !.next = i, !.ended = TRUE]
    ELSE AfterPass(eventsToDelete, i, ProcessDeletion(eventsToDelete[i], st, deny, o),
                   deny, o)

\* the loop after the pass over eventsToDelete[i] ended in state done
AfterPass(eventsToDelete, i, done, deny, o) ==
    IF done.awaited THEN [done EXCEPT !.next = i + 1]
    ELSE RunDeletions(eventsToDelete, i + 1, done, deny, o)

\* a save step that rewrites the file after every sweep
SweepSettleAlwaysSaves(s, r, writeOk) ==
    /\ files' = r.files
    /\ IF ~r.ended
       THEN /\ sw' = [s EXCEPT !.pc = "run", !.next = r.next, !.stats = r.stats,
                                !.refused = r.refused]
            /\ store' = store
       ELSE /\ sw' = [s EXCEPT !.pc = "done", !.next = r.next, !.refused = r.refused,
                                !.saved = writeOk, !.stats = r.stats]
            /\ store' = WriteEventsData(s.eventsToKeep, writeOk)

\* the sweep after its loop reached state r: suspended at an await, or
\* through the save step (the write is skipped when nothing was deleted)
SweepSettle(s, r, writeOk) ==
    /\ files' = r.files
    /\ IF ~r.ended
       THEN /\ sw' = [s EXCEPT !.pc = "run", !.next = r.next, !.stats = r.stats,
                                !.refused = r.refused]
            /\ store' = store
       ELSE /\ sw' = [s EXCEPT
                        !.pc = "done", !.next = r.next, !.refused = r.refused,
                        !.saved = (r.stats.deletedEvents > 0 /\ writeOk),
                        !.stats = IF r.stats.deletedEvents > 0 /\ ~writeOk
                                  THEN [r.stats EXCEPT
                                          !.errors = Append(@, [what |-> "save", id |-> 0])]
                                  ELSE r.stats]
            /\ store' = IF r.stats.deletedEvents > 0
                        THEN WriteEventsData(s.eventsToKeep, writeOk)
                        ELSE store

\* the sweep from position s.next to its next await or to its return
SweepAdvance(s, deny, o, writeOk) ==
    SweepSettle(s, RunDeletions(s.eventsToDelete, s.next,
                    [files |-> files, stats |-> s.stats, awaited |-> FALSE,
                     found |-> FALSE, next |-> s.next, ended |-> FALSE,
                     refused |-> s.refused], deny, o),
                writeOk)

\* the sweep from its call to its first await: read, cutoff, classification
SweepBegin(days, readOk, deny, o, writeOk) ==
    LET events     == ReadEventsData(readOk)
        cutoffDate == AddDays(now, 0 - days)
        s == [IdleSweep EXCEPT
                !.cutoffDate = cutoffDate,
                !.eventsToDelete = SelectSeq(events, LAMBDA e : Expired(e, cutoffDate)),
                !.eventsToKeep = SelectSeq(events, LAMBDA e : ~Expired(e, cutoffDate)),
                !.stats = [EmptyStats EXCEPT
                    !.processedEvents = Len(events),
                    !.skippedLockedEvents =
                        Len(SelectSeq(events, LAMBDA e : IsOld(e, cutoffDate) /\ e.locked))]]
    IN  SweepAdvance(s, deny, o, writeOk)

DenyChoices == {{}, files} \cup {{f} : f \in files}

\* the orders in which readdirSync may list the directories the sweep reads
VideoOrders == Orders({f \in files : StartsWith(f, SweepBaseDir) /\ IsVideoFile(f)})

\* the CronJob of app.js: the scheduled sweep of the service built from config
ScheduledCleanup(readOk, deny, o, writeOk) ==
    /\ sw.pc \in {"idle", "done"}
    /\ sweeps < MaxSweeps
    /\ sweeps' = sweeps + 1
    /\ SweepBegin(ConfigRetentionDays, readOk, deny, o, writeOk)
    /\ UNCHANGED <<now, ticks, pending, m, matches, retentionDays, last>>

\* POST /api/retention/cleanup: a truthy retentionDays of the body is
\* assigned to the service before the sweep (0 stands for none given)
CleanupRoute(override, readOk, deny, o, writeOk) ==
    /\ sw.pc \in {"idle", "done"}
    /\ sweeps < MaxSweeps
    /\ sweeps' = sweeps + 1
    /\ retentionDays' = IF override # 0 THEN override ELSE retentionDays
    /\ SweepBegin(retentionDays', readOk, deny, o, writeOk)
    /\ UNCHANGED <<now, ticks, pending, m, matches, last>>

\* PUT /api/retention/config: a number >= 1 is assigned to the service of
\* the routes; anything else is answered 400 and changes nothing
UpdateConfig(days) ==
    /\ retentionDays' = IF days >= 1 THEN days ELSE retentionDays
    /\ UNCHANGED <<store, files, now, ticks, pending, sw, sweeps, m, matches, last>>

\* the sweep resumed after an awaited unlink
SweepResume(deny, o, writeOk) ==
    /\ sw.pc = "run"
    /\ SweepAdvance(sw, deny, o, writeOk)
    /\ UNCHANGED <<now, ticks, pending, sweeps, m, matches, retentionDays, last>>

(* ----------------------------------------------------------------------- *)
(* The environment's steps                                                   *)
(* ----------------------------------------------------------------------- *)
\* the clock advances by a second
Tick ==
    /\ ticks < MaxTicks
    /\ ticks' = ticks + 1
    /\ now' = [now EXCEPT !.sec = @ + 1]
    /\ UNCHANGED <<store, files, pending, sw, sweeps, m, matches, retentionDays, last>>

\* the upload collaborator stores a video
UploadVideo(path) ==
    /\ path \notin files
    /\ Cardinality({f \in files : IsVideoFile(f)}) < MaxVideos
    /\ files' = files \cup {path}
    /\ UNCHANGED <<store, now, ticks, pending, sw, sweeps, m, matches, retentionDays, last>>

\* `/videos/${year}/${month}/${day}/${file}` of a file below ListBaseDir
StoredPath(file) == VideosPrefix \o SubSeq(file, Len(ListBaseDir) + 2, Len(file))

\* express.static of public/: the files behind an event's imagePath and
\* videoPath
MediaFiles(event) ==
    {PathJoin(PublicDir, q) : q \in {event.imagePath, event.videoPath} \ {<<>>}}

EventIds == Ids(store) \cup {MissingId}

\* req.user.username of the operators who acknowledge
Operators == {"op1", "op2"}

(* ----------------------------------------------------------------------- *)
(* Spec: the event store under mail intake, test events and updates by id   *)
(* ----------------------------------------------------------------------- *)
\* the videoPath values a client posts
AttachPaths == {StoredPath(VideoA),
                VideosPrefix \o Slash(DayDirOfTs(TsB), VideoName(POD1, TsB))}

Init ==
    /\ store = <<>>
    /\ files = {}
    /\ now = StartTime
    /\ ticks = 0
    /\ pending = {}
    /\ sw = IdleSweep
    /\ sweeps = 0
    /\ m = IdleMatcher
    /\ matches = 0
    /\ retentionDays = DefaultRetentionDays
    /\ last = Unrecorded

Next ==
    \/ \E msg \in Mails, readOk, writeOk \in BOOLEAN : SmtpReceive(msg, readOk, writeOk)
    \/ \E p \in pending, downloadOk, writeOk \in BOOLEAN : SmtpResume(p, downloadOk, writeOk)
    \/ \E readOk, writeOk \in BOOLEAN : CreateTestEvent(readOk, writeOk)
    \/ \E readOk, writeOk \in BOOLEAN : CheckEmailsTest(readOk, writeOk)
    \/ \E id \in EventIds, user \in Operators, lockedArg \in {"undefined", "true", "false"},
          readOk, writeOk \in BOOLEAN : Acknowledge(id, user, lockedArg, readOk, writeOk)
    \/ \E id \in EventIds, locked, readOk, writeOk \in BOOLEAN :
          ToggleEventLock(id, locked, readOk, writeOk)
    \/ \E id \in EventIds, path \in AttachPaths, readOk, writeOk \in BOOLEAN :
          StoreVideoPath(id, path, readOk, writeOk)
    \/ \E id \in EventIds, path \in AttachPaths, readOk, writeOk \in BOOLEAN :
          UpdateVideoPath(id, path, readOk, writeOk)
    \/ Tick

Spec == Init /\ [][Next]_vars

(* ----------------------------------------------------------------------- *)
(* SpecSweep: sweeps over two stored alarms, with locks and attachments     *)
(* ----------------------------------------------------------------------- *)
\* MsgA's event, made at StartTime, and MsgB's, made a second later
EventA == SmtpNewEvent(ProcessEmail(MsgA, StartTime), StartTime)

EventB ==
    SmtpNewEvent(ProcessEmail(MsgB, [StartTime EXCEPT !.sec = @ + 1]),
                 [StartTime EXCEPT !.sec = @ + 1])

\* ten days after MsgB's alarm, to the second
SweepTime == AddDays(MsgB.date, 10)

\* the retentionDays a cleanup request carries: none, or ten days, which
\* puts the cutoff on MsgB's date
Overrides == {0, 10}

InitSweep ==
    /\ store = <<EventA, EventB>>
    /\ files \in {{PathJoin(PublicDir, EventA.imagePath),
                   PathJoin(PublicDir, EventB.imagePath), VideoA} \cup alt :
                        alt \in SUBSET {VideoAlt}}
    /\ now = SweepTime
    /\ ticks = 0
    /\ pending = {}
    /\ sw = IdleSweep
    /\ sweeps = 0
    /\ m = IdleMatcher
    /\ matches = 0
    /\ retentionDays = DefaultRetentionDays
    /\ last = Unrecorded

NextSweep ==
    \/ \E id \in EventIds, locked, readOk, writeOk \in BOOLEAN :
          ToggleEventLock(id, locked, readOk, writeOk)
    \/ \E id \in EventIds, readOk, writeOk \in BOOLEAN :
          UpdateVideoPath(id, StoredPath(VideoA), readOk, writeOk)
    \/ \E readOk, writeOk \in BOOLEAN, deny \in DenyChoices, o \in VideoOrders :
          ScheduledCleanup(readOk, deny, o, writeOk)
    \/ \E override \in Overrides, readOk, writeOk \in BOOLEAN, deny \in DenyChoices,
          o \in VideoOrders : CleanupRoute(override, readOk, deny, o, writeOk)
    \/ \E writeOk \in BOOLEAN, deny \in DenyChoices, o \in VideoOrders :
          SweepResume(deny, o, writeOk)

SpecSweep == InitSweep /\ [][NextSweep]_vars

(* ----------------------------------------------------------------------- *)
(* SpecConfig: sweeps and the retention configuration, over young events    *)
(* ----------------------------------------------------------------------- *)
\* one hour after MsgB was sent
ConfigTime == [MsgB.date EXCEPT !.sec = @ + 3600]

\* the retentionDays a PUT /config is given: rejected, accepted
ConfigValues == {0, 3}

\* the retentionDays a POST /cleanup is given: none, ten days, minus one day
ConfigOverrides == {0, 10, -1}

InitConfig ==
    /\ store = <<EventA, EventB>>
    /\ files = {PathJoin(PublicDir, EventA.imagePath),
                PathJoin(PublicDir, EventB.imagePath), VideoA}
    /\ now = ConfigTime
    /\ ticks = 0
    /\ pending = {}
    /\ sw = IdleSweep
    /\ sweeps = 0
    /\ m = IdleMatcher
    /\ matches = 0
    /\ retentionDays = DefaultRetentionDays
    /\ last = Unrecorded

NextConfig ==
    \/ \E days \in ConfigValues : UpdateConfig(days)
    \/ \E readOk, writeOk \in BOOLEAN, deny \in DenyChoices, o \in VideoOrders :
          ScheduledCleanup(readOk, deny, o, writeOk)
    \/ \E override \in ConfigOverrides, readOk, writeOk \in BOOLEAN,
          deny \in DenyChoices, o \in VideoOrders :
          CleanupRoute(override, readOk, deny, o, writeOk)
    \/ \E writeOk \in BOOLEAN, deny \in DenyChoices, o \in VideoOrders :
          SweepResume(deny, o, writeOk)

SpecConfig == InitConfig /\ [][NextConfig]_vars

(* ----------------------------------------------------------------------- *)
(* SpecMatch: the matcher over the videos of MsgA's camera                  *)
(* ----------------------------------------------------------------------- *)
\* 15:34:13, five seconds before the snapshot
TsV2 == <<"2", "0", "2", "5", "0", "4", "2", "4", "1", "5", "3", "4", "1", "3">>

\* 15:36:18, 120 seconds after the snapshot
TsV3 == <<"2", "0", "2", "5", "0", "4", "2", "4", "1", "5", "3", "6", "1", "8">>

\* 15:36:19, 121 seconds after the snapshot
TsV4 == <<"2", "0", "2", "5", "0", "4", "2", "4", "1", "5", "3", "6", "1", "9">>

DayVideo(ts) == Slash(Slash(ListBaseDir, DayDirOfTs(TsA)), VideoName(POD1, ts))

\* a clip of the snapshot's day that was stored in the next day's directory
NextDayDir == <<"2", "0", "2", "5", "/", "0", "4", "/", "2", "5">>

NextDayVideo(ts) == Slash(Slash(ListBaseDir, NextDayDir), VideoName(POD1, ts))

MatchUploads ==
    {DayVideo(TsV1), DayVideo(TsV2), DayVideo(TsV3), DayVideo(TsV4),
     NextDayVideo(TsV3), NextDayVideo(TsV4)}

InitMatch ==
    /\ store = <<EventA>>
    /\ files = {PathJoin(PublicDir, EventA.imagePath)}
    /\ now = [StartTime EXCEPT !.sec = @ + 1]
    /\ ticks = 0
    /\ pending = {}
    /\ sw = IdleSweep
    /\ sweeps = 0
    /\ m = IdleMatcher
    /\ matches = 0
    /\ retentionDays = DefaultRetentionDays
    /\ last = Unrecorded

NextMatch ==
    \/ \E path \in MatchUploads : UploadVideo(path)
    \/ \E i \in 1..Len(store) : MatchStart(store[i])
    \/ MatchExtended
    \/ \E readOk, writeOk \in BOOLEAN : MatchUpdate(readOk, writeOk)

SpecMatch == InitMatch /\ [][NextMatch]_vars

(* ----------------------------------------------------------------------- *)
(* SpecRetry: the matcher called again, its awaited requests answered       *)
(* ----------------------------------------------------------------------- *)
\* the uploads and the matcher of SpecMatch with the store's file loading
\* and saving; the POST the matcher awaits is answered in the end
NextRetry ==
    \/ \E path \in MatchUploads : UploadVideo(path)
    \/ \E i \in 1..Len(store) : MatchStart(store[i])
    \/ MatchExtended
    \/ MatchUpdate(TRUE, TRUE)

SpecRetry ==
    /\ InitMatch
    /\ [][NextRetry]_vars
    /\ WF_vars(MatchUpdate(TRUE, TRUE))

(* ----------------------------------------------------------------------- *)
(* SpecCamera: the matcher with the videos of two cameras on disk           *)
(* ----------------------------------------------------------------------- *)
\* a second camera whose name begins with the name of the first
POD10 == POD1 \o <<"0">>

CameraUploads ==
    {DayVideo(TsV1), DayVideo(TsV4),
     Slash(Slash(ListBaseDir, DayDirOfTs(TsA)), VideoName(POD10, TsV2)),
     Slash(Slash(ListBaseDir, NextDayDir), VideoName(POD10, TsV3))}

NextCamera ==
    \/ \E path \in CameraUploads : UploadVideo(path)
    \/ \E i \in 1..Len(store) : MatchStart(store[i])
    \/ MatchExtended
    \/ \E readOk, writeOk \in BOOLEAN : MatchUpdate(readOk, writeOk)

SpecCamera == InitMatch /\ [][NextCamera]_vars

(* ----------------------------------------------------------------------- *)
(* SpecAnchor: the matcher on an event whose date and snapshot stamp differ *)
(* ----------------------------------------------------------------------- *)
\* 15:38:18, four minutes after the snapshot of MsgA
TsD == <<"2", "0", "2", "5", "0", "4", "2", "4", "1", "5", "3", "8", "1", "8">>

\* a camera mail sent four minutes after its snapshot was taken: the Date
\* header and the stamp in the attachment's name disagree
MsgD == [messageId |-> <<"m", "3">>, date |-> DateOfTs(TsD), camera |-> POD1,
         attachment |-> AttachmentName(TsA), html |-> FALSE]

\* the server clock when MsgD arrives: 15:38:20
AnchorTime == [StartTime EXCEPT !.sec = @ + 200]

EventD == SmtpNewEvent(ProcessEmail(MsgD, AnchorTime), AnchorTime)

InitAnchor ==
    /\ store = <<EventD>>
    /\ files = {PathJoin(PublicDir, EventD.imagePath)}
    /\ now = [AnchorTime EXCEPT !.sec = @ + 1]
    /\ ticks = 0
    /\ pending = {}
    /\ sw = IdleSweep
    /\ sweeps = 0
    /\ m = IdleMatcher
    /\ matches = 0
    /\ retentionDays = DefaultRetentionDays
    /\ last = Unrecorded

SpecAnchor == InitAnchor /\ [][NextMatch]_vars

(* ----------------------------------------------------------------------- *)
(* SpecReply: intake and updates by id, with the answers on record          *)
(* ----------------------------------------------------------------------- *)
\* the operator who acknowledges while the answers are recorded
ReplyOperators == {"op1"}

InitReply ==
    /\ store = <<>>
    /\ files = {}
    /\ now = StartTime
    /\ ticks = 0
    /\ pending = {}
    /\ sw = IdleSweep
    /\ sweeps = 0
    /\ m = IdleMatcher
    /\ matches = 0
    /\ retentionDays = DefaultRetentionDays
    /\ last = NoReply

NextReply ==
    \/ \E msg \in Mails, readOk, writeOk \in BOOLEAN : SmtpReceive(msg, readOk, writeOk)
    \/ \E p \in pending, downloadOk, writeOk \in BOOLEAN : SmtpResume(p, downloadOk, writeOk)
    \/ \E id \in EventIds, user \in ReplyOperators, readOk, writeOk \in BOOLEAN :
          Acknowledge(id, user, "undefined", readOk, writeOk)
    \/ \E id \in EventIds, readOk, writeOk \in BOOLEAN :
          ToggleEventLock(id, TRUE, readOk, writeOk)
    \/ \E id \in EventIds, readOk, writeOk \in BOOLEAN :
          StoreVideoPath(id, StoredPath(VideoA), readOk, writeOk)
    \/ \E id \in EventIds, readOk, writeOk \in BOOLEAN :
          UpdateVideoPath(id, StoredPath(VideoA), readOk, writeOk)
    \/ Tick

SpecReply == InitReply /\ [][NextReply]_vars

(* ----------------------------------------------------------------------- *)
(* Properties of the retention sweep (SpecSweep)                            *)
(* ----------------------------------------------------------------------- *)
\* C1  Lock overrides age.  Of the events a sweep read, sw.eventsToKeep and
\* sw.eventsToDelete, every locked one is kept: none is in eventsToDelete,
\* each is in the store while the sweep runs and after it, whatever its
\* date; skippedLockedEvents counts exactly the locked ones dated before
\* the cutoff, and deletedEvents counts passes over eventsToDelete only.
LockOverridesAge ==
    sw.pc \in {"run", "done"} =>
        /\ \A i \in 1..Len(sw.eventsToDelete) : ~sw.eventsToDelete[i].locked
        /\ \A i \in 1..Len(sw.eventsToKeep) :
              sw.eventsToKeep[i].locked => sw.eventsToKeep[i].id \in Ids(store)
        /\ sw.stats.skippedLockedEvents =
              Cardinality({i \in 1..Len(sw.eventsToKeep) :
                              /\ sw.eventsToKeep[i].locked
                              /\ DateLess(sw.eventsToKeep[i].date, sw.cutoffDate)})
        /\ sw.stats.deletedEvents <= Len(sw.eventsToDelete)

\* a finished sweep that saved, deleted an event and skipped a locked one
\* dated before the cutoff
LockOverridesAgeWitness ==
    /\ sw.pc = "done"
    /\ sw.saved
    /\ sw.stats.deletedEvents = 1
    /\ sw.stats.skippedLockedEvents = 1
    /\ \E i \in 1..Len(store) :
          store[i].locked /\ DateLess(store[i].date, sw.cutoffDate)

\* C3  The media of a locked event survive every sweep.  In every step of a
\* sweep, each file behind the imagePath or videoPath of an event the sweep
\* read as locked that is on disk before the step is on disk after it.
LockedMediaSurvive ==
    [][\A i \in 1..Len(sw'.eventsToKeep) :
          sw'.eventsToKeep[i].locked =>
              \A f \in MediaFiles(sw'.eventsToKeep[i]) : f \in files => f \in files']_vars

\* C7  Deletion completeness.  In the step that ends a sweep which read the
\* whole store and reports no error, the store becomes the events that are
\* locked or dated within the window, in their order, and of each event
\* that left the store no media file remains: not the files behind its
\* imagePath and videoPath and, when it has no videoPath, no clip of its
\* camera stamped within the matcher's tolerance of its date.
DeletionComplete ==
    [][(/\ sw'.pc = "done"
        /\ sw.pc = "run" \/ sweeps' # sweeps
        /\ sw'.stats.processedEvents = Len(store)
        /\ sw'.stats.errors = <<>>)
       => /\ store' = SelectSeq(store,
                        LAMBDA e : e.locked \/ ~DateLess(e.date, sw'.cutoffDate))
          /\ \A i \in 1..Len(store) :
                store[i].id \notin Ids(store') =>
                    /\ MediaFiles(store[i]) \cap files' = {}
                    /\ store[i].videoPath = <<>> =>
                          \A f \in files' :
                              ~(/\ IsVideoFile(f)
                                /\ StartsWith(Basename(f), store[i].camera)
                                /\ VideoTimestamp(Basename(f)) # <<>>
                                /\ AbsDiffMs(MatcherDate(VideoTimestamp(Basename(f))),
                                             store[i].date) <= TimeWindowMs)]_vars

OnlySweepsDelete ==
    [][\A i \in 1..Len(store) :
          store[i].id \notin Ids(store') =>
              /\ sw.pc # "done" /\ sw'.pc = "done" /\ sw'.saved
              /\ \E j \in 1..Len(sw'.eventsToDelete) :
                    /\ sw'.eventsToDelete[j].id = store[i].id
                    /\ DateLess(sw'.eventsToDelete[j].date, sw'.cutoffDate)
                    /\ ~sw'.eventsToDelete[j].locked]_vars

\* C4  videoPath is set once.  In every step, an event that has a videoPath
\* and is still stored with a videoPath afterwards has the same one: no
\* attach, by update-video-path or by storeVideoPath, replaces a path p by
\* another path q.
VideoPathSetOnce ==
    [][\A i \in 1..Len(store) :
          (/\ store[i].videoPath # <<>>
           /\ i <= Len(store')
           /\ store'[i].id = store[i].id
           /\ store'[i].videoPath # <<>>)
          => store'[i].videoPath = store[i].videoPath]_vars

\* C5  messageId is unique.  In every reachable state no two events of the
\* store have the same messageId, whatever the interleaving of the mail
\* callbacks and the test-event creations.
MessageIdUnique ==
    \A i, j \in 1..Len(store) : store[i].messageId = store[j].messageId => i = j

(* ----------------------------------------------------------------------- *)
(* Properties of the matcher (SpecMatch)                                    *)
(* ----------------------------------------------------------------------- *)
\* the difference in ms between the stamp of a listed video and the stamp
\* of the snapshot the matcher works on
Delta(videoPath) ==
    AbsDiffMs(MatcherDate(VideoTimestamp(Basename(videoPath))),
              MatcherDate(ImageTimestamp(m.event.imagePath)))

\* C6  Idempotent attach.  A matcher invoked on an event that has a
\* videoPath makes no directory listing and no store write, and returns
\* that path as found.
IdempotentAttach ==
    (m.pc # "idle" /\ m.event.videoPath # <<>>) =>
        /\ m.listings = 0
        /\ ~m.wrote
        /\ m.pc = "done" => (m.result.found /\ m.result.videoPath = m.event.videoPath)

SelectionIsFirstNearest ==
    m.listings >= 1 =>
        LET within == {i \in 1..Len(m.scanned) : Delta(m.scanned[i]) <= TimeWindowMs}
        IN  /\ (within = {}) <=> (m.bestMatch = <<>>)
            /\ within # {} =>
                  \E k \in within :
                      /\ m.bestMatch = m.scanned[k]
                      /\ m.minTimeDiff = Delta(m.scanned[k])
                      /\ \A j \in 1..Len(m.scanned) :
                            /\ Delta(m.scanned[k]) <= Delta(m.scanned[j])
                            /\ Delta(m.scanned[j]) = Delta(m.scanned[k]) => k <= j
            /\ m.pc = "done" =>
                  /\ m.result.found <=> (within # {})
                  /\ m.result.found =>
                        /\ m.result.videoPath = VideosPrefix \o m.bestMatch
                        /\ m.result.timeDifference = m.minTimeDiff

\* three candidates listed: one 120 s away, then two that are each 5 s
\* away; the first of the two is returned
SelectionIsFirstNearestWitness ==
    /\ m.listings = 1
    /\ m.pc = "done"
    /\ Len(m.scanned) = 3
    /\ Delta(m.scanned[1]) = 120000
    /\ Delta(m.scanned[2]) = 5000
    /\ Delta(m.scanned[3]) = 5000
    /\ m.scanned[2] # m.scanned[3]
    /\ m.result.found
    /\ m.result.videoPath = VideosPrefix \o m.scanned[2]

(* ----------------------------------------------------------------------- *)
(* Further properties of the retention sweep (SpecSweep)                    *)
(* ----------------------------------------------------------------------- *)
\* C11  A sweep with nothing to delete is a no-op.  In the step that starts a
\* sweep while no stored event is both dated before the sweep's cutoff and
\* unlocked, the sweep ends at once, the store file is not written and stays
\* as it is, no file is deleted, and deletedEvents, deletedImages and
\* deletedVideos are 0; so it is for a sweep started with the same cutoff
\* on the store a sweep has just saved.
NothingToDeleteIsNoOp ==
    [][(/\ sweeps' # sweeps
        /\ \/ \A i \in 1..Len(store) : ~(DateLess(store[i].date, sw'.cutoffDate)
                                          /\ ~store[i].locked)
           \/ /\ sw.pc = "done" /\ sw.saved /\ store = sw.eventsToKeep
              /\ sw'.cutoffDate = sw.cutoffDate)
       => /\ store' = store
          /\ files' = files
          /\ sw'.pc = "done"
          /\ ~sw'.saved
          /\ sw'.eventsToDelete = <<>>
          /\ sw'.stats.deletedEvents = 0
          /\ sw'.stats.deletedImages = 0
          /\ sw'.stats.deletedVideos = 0
          /\ sw'.stats.errors = <<>>]_vars

\* a second sweep that read the one event the first sweep left, a locked
\* one dated before the cutoff, and ended without deleting or saving
NothingToDeleteIsNoOpWitness ==
    /\ sweeps = 2
    /\ sw.pc = "done"
    /\ ~sw.saved
    /\ Len(store) = 1
    /\ store[1].locked
    /\ DateLess(store[1].date, sw.cutoffDate)
    /\ sw.stats.processedEvents = 1
    /\ sw.stats.skippedLockedEvents = 1
    /\ sw.stats.deletedEvents = 0
    /\ PathJoin(PublicDir, store[1].imagePath) \in files

FailuresSurfaced ==
    /\ last.announced # <<>> =>
          \E i \in 1..Len(store) : store[i].messageId = last.announced
    /\ (last.op \in {"acknowledge", "lock", "attach"} /\ last.error = "not-found") =>
          last.id \notin Ids(store)

\* C14  A dedup conflict is a silent no-op.  In every step in which a mail
\* callback ends: if a stored event has the mail's messageId, the store is
\* unchanged and not written to, no file is saved and no event announced;
\* otherwise the store afterwards is the store before with exactly one
\* event, of that messageId, appended at its end.
DedupConflictIsNoOp ==
    [][(/\ last'.op = "smtp"
        /\ now' = now
        /\ Cardinality(pending') <= Cardinality(pending))
       => IF \E i \in 1..Len(store) : store[i].messageId = last'.messageId
          THEN /\ store' = store
               /\ files' = files
               /\ ~last'.wrote
               /\ last'.announced = <<>>
          ELSE /\ Len(store') = Len(store) + 1
               /\ SubSeq(store', 1, Len(store)) = store
               /\ store'[Len(store')].messageId = last'.messageId]_vars

(* ----------------------------------------------------------------------- *)
(* Further properties of the event store (Spec)                             *)
(* ----------------------------------------------------------------------- *)
\* C15  The acknowledgement fields are set at most once.  In every step, an
\* acknowledged event that is stored as acknowledged afterwards has the
\* acknowledgedAt, acknowledgedBy, responseTimeMinutes and isLateResponse
\* it had before.
AcknowledgedOnce ==
    [][\A i \in 1..Len(store) :
          (/\ store[i].acknowledged
           /\ i <= Len(store')
           /\ store'[i].id = store[i].id
           /\ store'[i].messageId = store[i].messageId
           /\ store'[i].acknowledged)
          => /\ store'[i].acknowledgedAt = store[i].acknowledgedAt
             /\ store'[i].acknowledgedBy = store[i].acknowledgedBy
             /\ store'[i].responseTimeMinutes = store[i].responseTimeMinutes
             /\ store'[i].isLateResponse = store[i].isLateResponse]_vars

\* C16  Event ids are unique.  In every reachable state no two events of
\* the store have the same id, also when two events are created within one
\* clock tick.
EventIdUnique ==
    \A i, j \in 1..Len(store) : store[i].id = store[j].id => i = j

\* C17  No concurrent update is dropped.  In every step in which a mail
\* callback that had read a non-empty store resumes after its await and
\* writes, each event stored before the step is stored after it as it was:
\* what create, acknowledge, lock toggle and attach did while the callback
\* was suspended is still there.
NoUpdateDropped ==
    [][\A p \in pending \ pending' :
          (p.events # <<>> /\ store' # store) =>
              \A i \in 1..Len(store) : \E j \in 1..Len(store') : store'[j] = store[i]]_vars

(* ----------------------------------------------------------------------- *)
(* The sweep and the requests made while it awaits (SpecSweep)              *)
(* ----------------------------------------------------------------------- *)
\* C18  A lock set while a sweep is in flight is honoured.  In every step a
\* suspended sweep takes: an event that is stored as locked and that the
\* sweep has classified for deletion but not yet made its pass over (the
\* lock was set after the sweep's read) keeps its image and video files
\* and is stored, locked, after the step.
LockDuringSweepHonoured ==
    [][(sw.pc = "run" /\ sw' # sw) =>
          \A k \in sw.next..Len(sw.eventsToDelete) :
              \A i \in 1..Len(store) :
                  (store[i].id = sw.eventsToDelete[k].id /\ store[i].locked) =>
                      /\ \A f \in MediaFiles(store[i]) : f \in files => f \in files'
                      /\ \E j \in 1..Len(store') :
                            store'[j].id = store[i].id /\ store'[j].locked]_vars

\* the search over all dates of findMatchingVideo(event): the relative paths
\* it can end with (<<>> for none), over the orders readdirSync may give
ExtendedSelects(event) ==
    {BestMatchLoop(VideosList(event.camera, <<>>, o),
                   MatcherDate(ImageTimestamp(event.imagePath)),
                   ExtendedTimeWindow, NoMatch).bestMatch : o \in Orders(RecentFiles)}

\* the dated search of findMatchingVideo(event) when readdirSync gives order o
DatedSelects(event, o) ==
    LET ts        == ImageTimestamp(event.imagePath)
        dateStr   == Substr(ts, 0, 4) \o Substr(ts, 4, 2) \o Substr(ts, 6, 2)
        videoList == VideosList(event.camera, dateStr, o)
        best      == BestMatchLoop(videoList, MatcherDate(ts), TimeWindowMs, NoMatch)
    IN  IF best.bestMatch # <<>> THEN {best.bestMatch}
        ELSE IF Len(videoList) = 0 THEN ExtendedSelects(event)
        ELSE {<<>>}

\* the files findMatchingVideo(event) can select on the files now on disk:
\* each member is the set holding the selected file, or {} for no match
MatcherSelects(event) ==
    LET rels == IF \/ event.imagePath = <<>>
                   \/ ImageTimestamp(event.imagePath) = <<>>
                   \/ event.camera = <<>>
                THEN {<<>>}
                ELSE UNION {DatedSelects(event, o) : o \in Orders(DatedFiles(event))}
    IN  {IF r = <<>> THEN {} ELSE {Slash(ListBaseDir, r)} : r \in rels}

\* C19  The sweep's fallback is the Matcher's search.  In every sweep step
\* that makes the pass over one event without a stored videoPath, no unlink
\* being refused: the video files the step deletes are the file the Matcher
\* would select for that event on the files then on disk, and none when
\* the Matcher would report no match.
FallbackIsMatcherSearch ==
    [][\A k \in 1..Len(sw'.eventsToDelete) :
          (/\ sw' # sw
           /\ k = (IF sweeps' # sweeps THEN 1 ELSE sw.next)
           /\ sw'.next = k + 1
           /\ sw'.eventsToDelete[k].videoPath = <<>>
           /\ sw'.refused = {})
          => {f \in files \ files' : IsVideoFile(f)}
                \in MatcherSelects(sw'.eventsToDelete[k])]_vars

(* ----------------------------------------------------------------------- *)
(* Further properties of the matcher (SpecMatch)                            *)
(* ----------------------------------------------------------------------- *)
\* a video of the event's camera, stamped within the tolerance of the
\* event's snapshot, in the directory of the snapshot's day, of the day
\* before or of the day after
InCandidateDays(f, event) ==
    LET imageDate == MatcherDate(ImageTimestamp(event.imagePath))
        days      == DatesToCheck(imageDate)
    IN  /\ IsVideoFile(f)
        /\ StartsWith(Basename(f), event.camera)
        /\ \E d \in 1..Len(days) : Dirname(f) = Slash(ListBaseDir, days[d])
        /\ VideoTimestamp(Basename(f)) # <<>>
        /\ AbsDiffMs(MatcherDate(VideoTimestamp(Basename(f))), imageDate) <= TimeWindowMs

\* C20  The candidate days are the event's day, the day before and the day
\* after.  In every step in which the matcher returns for an event with a
\* camera and a snapshot stamp: if a video of that camera within the
\* tolerance is on disk in the directory of one of these three days, the
\* matcher returns found, with a video within the tolerance, whatever else
\* the directory of the event's own day holds.
CandidateDaysSearched ==
    [][(/\ m' # m
        /\ m'.pc = "done"
        /\ m'.event.camera # <<>>
        /\ ImageTimestamp(m'.event.imagePath) # <<>>
        /\ \E f \in files : InCandidateDays(f, m'.event))
       => /\ m'.result.found
          /\ m'.minTimeDiff <= TimeWindowMs]_vars

(* ----------------------------------------------------------------------- *)
(* The matcher's comparison targets (SpecAnchor)                            *)
(* ----------------------------------------------------------------------- *)
\* the smaller of a listed video's distances to the event's recorded date
\* and to the stamp of its snapshot
DualDelta(videoPath, event) ==
    Min2(AbsDiffMs(MatcherDate(VideoTimestamp(Basename(videoPath))), event.date),
         AbsDiffMs(MatcherDate(VideoTimestamp(Basename(videoPath))),
                   MatcherDate(ImageTimestamp(event.imagePath))))

\* C21  Dual-anchor comparison.  When the matcher has returned after its
\* dated listing: if a listed candidate is within the tolerance of the
\* event's recorded date or of its snapshot stamp, the matcher returned
\* found, also when date and stamp disagree and the candidate is within
\* the tolerance of the date only.
DualAnchorMatched ==
    (/\ m.pc = "done"
     /\ m.listings = 1
     /\ \E i \in 1..Len(m.scanned) : DualDelta(m.scanned[i], m.event) <= TimeWindowMs)
    => m.result.found

(* ----------------------------------------------------------------------- *)
(* Classification and counters of a sweep (SpecSweep)                       *)
(* ----------------------------------------------------------------------- *)
\* the events of seq dated strictly before cutoffDate whose lock is locked
OldEvents(seq, cutoffDate, locked) ==
    SelectSeq(seq, LAMBDA e : DateLess(e.date, cutoffDate) /\ e.locked = locked)

\* C22  Sweep classification and counters.  A step that starts a sweep
\* takes as cutoff the clock minus the retention window in days, reads the
\* store (or nothing when the read fails), selects for deletion exactly the
\* read events dated strictly before the cutoff and not locked, keeps every
\* other one (the event dated exactly at the cutoff included), sets
\* processedEvents to the number of events read and skippedLockedEvents to
\* the number of old locked ones; a sweep that has returned reports
\* deletedEvents = the number of old unlocked events it read and
\* processedEvents = deletedEvents + the number of events kept.
ClassificationAndCounters ==
    [][/\ sweeps' = sweeps + 1 =>
            /\ sw'.cutoffDate \in {AddDays(now, 0 - ConfigRetentionDays),
                                   AddDays(now, 0 - retentionDays')}
            /\ sw'.stats.processedEvents \in {0, Len(store)}
            /\ LET read == IF sw'.stats.processedEvents = 0 THEN <<>> ELSE store
               IN  /\ sw'.eventsToDelete = OldEvents(read, sw'.cutoffDate, FALSE)
                   /\ sw'.eventsToKeep =
                        SelectSeq(read, LAMBDA e : \/ ~DateLess(e.date, sw'.cutoffDate)
                                                   \/ e.locked)
                   /\ \A i \in 1..Len(read) :
                        read[i].date = sw'.cutoffDate =>
                            \E j \in 1..Len(sw'.eventsToKeep) :
                                sw'.eventsToKeep[j] = read[i]
                   /\ sw'.stats.skippedLockedEvents =
                        Len(OldEvents(read, sw'.cutoffDate, TRUE))
       /\ sw'.pc = "done" =>
            /\ sw'.stats.deletedEvents = Len(sw'.eventsToDelete)
            /\ sw'.stats.processedEvents =
                 sw'.stats.deletedEvents + Len(sw'.eventsToKeep)
            /\ sw'.stats.skippedLockedEvents =
                 Len(OldEvents(sw'.eventsToKeep, sw'.cutoffDate, TRUE))]_vars

\* a returned sweep that deleted one event, skipped a locked old one or
\* none, and kept an unlocked event dated exactly at its cutoff
ClassificationAndCountersWitness ==
    /\ sw.pc = "done"
    /\ sw.stats.deletedEvents = 1
    /\ sw.stats.processedEvents = 2
    /\ \E j \in 1..Len(sw.eventsToKeep) :
          sw.eventsToKeep[j].date = sw.cutoffDate /\ ~sw.eventsToKeep[j].locked

(* ----------------------------------------------------------------------- *)
(* Media already gone when the sweep comes to it (SpecSweep)                *)
(* ----------------------------------------------------------------------- *)
\* C23  Missing media is not an error.  Every entry of a sweep's errors
\* about the image or the video of an event comes from an unlink that was
\* refused for that event: an image or a stored video file that is already
\* gone adds no entry.
MissingMediaIsNoError ==
    \A i \in 1..Len(sw.stats.errors) :
        sw.stats.errors[i].what \in {"image", "video-path", "video"}
            => \E r \in sw.refused : r.id = sw.stats.errors[i].id

(* ----------------------------------------------------------------------- *)
(* What the matcher reports against what the store holds (SpecMatch)        *)
(* ----------------------------------------------------------------------- *)
\* C24  A successful match is persisted before it is reported.  In every
\* step in which the matcher returns found with a path for its event, the
\* store after the step holds that event with that path as its videoPath;
\* when the update failed or the event is gone, found is not returned.
MatchPersistedBeforeReported ==
    [][(m.pc # "done" /\ m'.pc = "done" /\ m'.result.found)
        => \E i \in 1..Len(store') :
              /\ store'[i].id = m'.event.id
              /\ store'[i].videoPath = m'.result.videoPath]_vars

(* ----------------------------------------------------------------------- *)
(* The matcher called again after not-found (SpecRetry)                     *)
(* ----------------------------------------------------------------------- *)
\* the first call of the matcher has returned not-found
FirstCallNotFound == matches = 1 /\ m.pc = "done" /\ ~m.result.found

\* the second call listed the directory of the event's day and a video
\* within the tolerance is in the listing
SecondCallHasCandidate ==
    /\ matches = 2
    /\ m.listings = 1
    /\ \E i \in 1..Len(m.scanned) :
          /\ VideoTimestamp(Basename(m.scanned[i])) # <<>>
          /\ Delta(m.scanned[i]) <= TimeWindowMs

\* the call has returned found with a listed video within the tolerance
\* and the stored event has that video as its videoPath
RetryAttached ==
    /\ m.pc = "done"
    /\ m.result.found
    /\ \E i \in 1..Len(m.scanned) :
          /\ m.result.videoPath = VideosPrefix \o m.scanned[i]
          /\ Delta(m.scanned[i]) <= TimeWindowMs
    /\ \E i \in 1..Len(store) :
          store[i].id = m.event.id /\ store[i].videoPath = m.result.videoPath

CameraPrefix(filename) ==
    LET seps == {i \in 1..Len(filename) : filename[i] = "_"}
    IN  IF seps = {} THEN filename
        ELSE SubSeq(filename, 1, (CHOOSE i \in seps : \A j \in seps : i <= j) - 1)

\* C26  Camera filtering is exact.  What the video index lists for the
\* matcher of an event with a camera, and what the matcher attaches, are
\* files whose camera prefix is the event's camera: for POD1 a file
\* POD10_00_<timestamp>.mp4 is never listed and never matched.
CameraFilterExact ==
    (m.listings >= 1 /\ m.event.camera # <<>>) =>
        /\ \A i \in 1..Len(m.scanned) :
              CameraPrefix(Basename(m.scanned[i])) = m.event.camera
        /\ m.bestMatch # <<>> => CameraPrefix(Basename(m.bestMatch)) = m.event.camera

(* ----------------------------------------------------------------------- *)
(* The date read from a 14-digit stamp (SpecSweep)                          *)
(* ----------------------------------------------------------------------- *)
\* C27  Timestamp parsing is the same everywhere.  For the stamp of every
\* video on disk when a sweep has begun, the matcher, the sweep's fallback
\* search and the video-match debug route build the same instant.
TimestampParsedAlike ==
    sw.pc # "idle" =>
        \A f \in files :
            (IsVideoFile(f) /\ VideoTimestamp(Basename(f)) # <<>>) =>
                /\ SweepFileDate(VideoTimestamp(Basename(f)))
                      = MatcherDate(VideoTimestamp(Basename(f)))
                /\ DebugFileDate(VideoTimestamp(Basename(f)))
                      = MatcherDate(VideoTimestamp(Basename(f)))

(* ----------------------------------------------------------------------- *)
(* Media deleted and rows removed by one sweep (SpecSweep)                  *)
(* ----------------------------------------------------------------------- *)
\* C28  Media deletion and row removal stay consistent.  When a sweep has
\* returned, no event it selected whose image is gone from the disk is
\* still in the store, also when the final rewrite of the store failed.
DeletedMediaRowsRemoved ==
    sw.pc = "done" =>
        \A i \in 1..Len(sw.eventsToDelete) :
            (/\ sw.eventsToDelete[i].imagePath # <<>>
             /\ PathJoin(PublicDir, sw.eventsToDelete[i].imagePath) \notin files)
            => \A j \in 1..Len(store) : store[j].id # sw.eventsToDelete[i].id

(* ----------------------------------------------------------------------- *)
(* The retention window of a sweep (SpecConfig)                             *)
(* ----------------------------------------------------------------------- *)
\* C29  The configured window is the one every sweep uses.  A step that
\* starts a sweep leaves the configured window as it was (an override is
\* for that sweep only), and a sweep started without a change of the
\* window, by the route or by the schedule, takes its cutoff from the
\* window configured last.
ConfiguredWindowUsed ==
    [][sweeps' = sweeps + 1 =>
          /\ retentionDays' = retentionDays
          /\ sw'.cutoffDate \in {AddDays(now, 0 - retentionDays)}
                                  \cup {AddDays(now, 0 - o) : o \in ConfigOverrides \ {0}}]_vars

\* C30  The retention window is never below one day.  Every step that
\* starts a sweep takes a cutoff no later than one day before the clock,
\* and selects no event younger than one day.
WindowAtLeastOneDay ==
    [][sweeps' = sweeps + 1 =>
          /\ ~DateLess(AddDays(now, 0 - 1), sw'.cutoffDate)
          /\ \A i \in 1..Len(sw'.eventsToDelete) :
                ~DateLess(AddDays(now, 0 - 1), sw'.eventsToDelete[i].date)]_vars

====
